---- MODULE Spec2Model ----
(***************************************************************************)
(* Model of scripts/generate_icon.py: the icon generator of the Frost app. *)
(*                                                                         *)
(* Two specifications share the module:                                    *)
(*   Spec        a run of the script: the import guard, then main() with   *)
(*               its directory loop and its size loop, over a filesystem;  *)
(*   SpecRender  create_icon(size), with the loop of draw_snowflake taken  *)
(*               one iteration at a time, for sizes drawn from a bounded   *)
(*               set.                                                      *)
(*                                                                         *)
(* Arithmetic.  The script computes lengths in floating point.  The model  *)
(* keeps lengths in hundredths of a pixel (size * 0.28 is size * 28) and   *)
(* cosines and sines in ten-thousandths, so an endpoint is exact to well   *)
(* under a tenth of a pixel.  int(size * k) is the floor of the product;   *)
(* the floating-point product and the exact one have the same floor for    *)
(* every size up to 2100 and each of the factors 0.04, 0.05 and 0.22.      *)
(***************************************************************************)
EXTENDS Integers, Sequences, FiniteSets

VARIABLES
    pc,         \* position of the run: import, loop, sizes, done, exit, fault
    pil,        \* the imaging dependency can be imported
    dirExists,  \* the directories of the filesystem
    fs,         \* the files: path -> content
    out,        \* the lines printed so far
    exitCode,   \* <<>> while running, then <<status>>
    di,         \* index of the iconset the directory loop is at
    si,         \* index of the size the size loop is at
    checked,    \* the directories exists() was called on, in order
    saved,      \* the (directory, size) pairs whose save() returned, in order
    fs0,        \* the files when the script was started
    prevFs,     \* the files when the previous run of main() completed
    run,        \* number of the current run of main()
    rpc,        \* position inside create_icon: idle, arms, return
    rsize,      \* the size create_icon was called with
    ri,         \* the loop variable i of draw_snowflake
    canvas      \* the image being drawn

vars == <<pc, pil, dirExists, fs, out, exitCode, di, si, checked, saved, fs0,
          prevFs, run, rpc, rsize, ri, canvas>>

mainVars == <<pc, pil, dirExists, fs, out, exitCode, di, si, checked, saved,
              fs0, prevFs, run>>

renderVars == <<rpc, rsize, ri, canvas>>

---------------------------------------------------------------------------
(* Bounds of the model *)

\* create_icon is called with every size in 1..MaxSize and every size of Sizes
MaxSize == 100

\* main() is run at most this many times on the same filesystem
MaxRuns == 2

---------------------------------------------------------------------------
(* Constants of the script *)

ArmPct == 28
BranchPct == 10
BranchOffsetPct == 14
LineWidthPct == 4
PaddingPct == 5
CornerRadiusPct == 22
NumArms == 6
ArmStep == 60
UpOffset == 90
BranchAngle == 45

Sizes == <<16, 32, 64, 128, 256, 512, 1024>>

Iconsets == <<"Blurred", "BlurredLauncher">>

BranchDirs == <<-1, 1>>

---------------------------------------------------------------------------
(* math.cos and math.sin of an angle in whole degrees, in ten-thousandths. *)
(* Every angle of the script is a multiple of 15 degrees.                  *)

CosQ(d) ==
    CASE d = 0 -> 10000
      [] d = 15 -> 9659
      [] d = 30 -> 8660
      [] d = 45 -> 7071
      [] d = 60 -> 5000
      [] d = 75 -> 2588
      [] d = 90 -> 0

Cos(deg) ==
    LET d == deg % 360 IN
    IF d <= 90 THEN CosQ(d)
    ELSE IF d <= 180 THEN -CosQ(180 - d)
    ELSE IF d <= 270 THEN -CosQ(d - 180)
    ELSE CosQ(360 - d)

Sin(deg) == Cos(deg + 270)

\* a length in hundredths of a pixel times a cosine or sine
Scaled(len, trig) == (len * trig) \div 10000

Max(a, b) == IF a >= b THEN a ELSE b

---------------------------------------------------------------------------
(* Images.  A canvas is its side and the shapes drawn on it, in order; the *)
(* raster is a function of these.                                          *)

\* Image.new('RGBA', (size, size), (0, 0, 0, 0)): a transparent canvas
NewImage(size) ==
    [kind |-> "png", size |-> size, rects |-> <<>>, lines |-> <<>>]

\* draw.rounded_rectangle(box, radius=radius, fill=fill)
rounded_rectangle(img, box, radius, fill) ==
    [img EXCEPT !.rects =
        Append(@, [box |-> box, radius |-> radius, fill |-> fill])]

\* draw.line([(x0, y0), (x1, y1)], fill=fill, width=width)
line(img, x0, y0, x1, y1, fill, width) ==
    [img EXCEPT !.lines =
        Append(@, [x0 |-> x0, y0 |-> y0, x1 |-> x1, y1 |-> y1,
                   fill |-> fill, width |-> width])]

arm_length(size) == size * ArmPct

branch_length(size) == size * BranchPct

branch_offset(size) == size * BranchOffsetPct

line_widthNoMax(size) == (size * LineWidthPct) \div 100

line_width(size) == Max(1, (size * LineWidthPct) \div 100)

angleNoOffset(i) == i * ArmStep

\* the angle of arm i, in degrees
angle(i) == i * ArmStep + UpOffset

\* the main arm of iteration i
MainArm(img, center_x, center_y, size, color, i) ==
    LET end_x == center_x * 100 + Scaled(arm_length(size), Cos(angle(i)))
        end_y == center_y * 100 - Scaled(arm_length(size), Sin(angle(i)))
    IN  line(img, center_x * 100, center_y * 100, end_x, end_y, color,
             line_width(size))

\* one branch of the arm of iteration i
Branch(img, center_x, center_y, size, color, i, branch_dir) ==
    LET branch_angle == angle(i) + branch_dir * BranchAngle
        branch_start_x ==
            center_x * 100 + Scaled(branch_offset(size), Cos(angle(i)))
        branch_start_y ==
            center_y * 100 - Scaled(branch_offset(size), Sin(angle(i)))
        branch_end_x ==
            branch_start_x + Scaled(branch_length(size), Cos(branch_angle))
        branch_end_y ==
            branch_start_y - Scaled(branch_length(size), Sin(branch_angle))
    IN  line(img, branch_start_x, branch_start_y, branch_end_x, branch_end_y,
             color, line_width(size))

\* the body of "for i in range(6)": the arm, then its two branches
DrawArm(img, center_x, center_y, size, color, i) ==
    LET a == MainArm(img, center_x, center_y, size, color, i)
        b == Branch(a, center_x, center_y, size, color, i, BranchDirs[1])
    IN  Branch(b, center_x, center_y, size, color, i, BranchDirs[2])

RECURSIVE DrawArmsFrom(_, _, _, _, _, _)
DrawArmsFrom(img, center_x, center_y, size, color, i) ==
    IF i >= NumArms THEN img
    ELSE DrawArmsFrom(DrawArm(img, center_x, center_y, size, color, i),
                      center_x, center_y, size, color, i + 1)

draw_snowflake(img, center_x, center_y, size, color) ==
    DrawArmsFrom(img, center_x, center_y, size, color, 0)

padding(size) == (size * PaddingPct) \div 100

corner_radius(size) == (size * CornerRadiusPct) \div 100

center(size) == size \div 2

\* create_icon up to the call of draw_snowflake
Background(size) ==
    rounded_rectangle(NewImage(size),
        <<padding(size), padding(size),
          size - padding(size), size - padding(size)>>,
        corner_radius(size), "black")

create_icon(size) ==
    draw_snowflake(Background(size), center(size), center(size), size, "white")

---------------------------------------------------------------------------
(* The raster.  Both fills are opaque, so a pixel is transparent unless a  *)
(* shape paints it.  The imaging library takes a box with both of its      *)
(* corners included: [x0, y0, x1, y1] covers the columns x0 .. x1 and the  *)
(* rows y0 .. y1, and what falls outside the canvas is clipped.  A rounded *)
(* rectangle is four quarter discs of the given radius, centered radius    *)
(* pixels inside each corner of the box, and the rectangles between them.  *)
(* For a stroke the test is an upper bound: every pixel of the box around  *)
(* the segment, widened by the stroke width, counts as painted.            *)

RectPaints(r, x, y) ==
    LET x0 == r.box[1]
        y0 == r.box[2]
        x1 == r.box[3]
        y1 == r.box[4]
        nx == IF x < x0 + r.radius THEN x0 + r.radius - x
              ELSE IF x > x1 - r.radius THEN x - (x1 - r.radius) ELSE 0
        ny == IF y < y0 + r.radius THEN y0 + r.radius - y
              ELSE IF y > y1 - r.radius THEN y - (y1 - r.radius) ELSE 0
    IN  /\ x0 <= x /\ x <= x1
        /\ y0 <= y /\ y <= y1
        /\ \/ nx = 0
           \/ ny = 0
           \/ nx * nx + ny * ny <= r.radius * r.radius

Min(a, b) == IF a <= b THEN a ELSE b

LinePaints(l, x, y) ==
    LET reach == (l.width + 1) * 100
    IN  /\ Min(l.x0, l.x1) - reach <= x * 100
        /\ x * 100 <= Max(l.x0, l.x1) + reach
        /\ Min(l.y0, l.y1) - reach <= y * 100
        /\ y * 100 <= Max(l.y0, l.y1) + reach

\* the alpha channel of pixel (x, y)
Alpha(img, x, y) ==
    IF \/ \E k \in 1..Len(img.rects) : RectPaints(img.rects[k], x, y)
       \/ \E k \in 1..Len(img.lines) : LinePaints(img.lines[k], x, y)
    THEN 255 ELSE 0

---------------------------------------------------------------------------
(* The filesystem *)

AllDirs == {"Blurred", "BlurredLauncher", "scripts"}

IconsetSet == {Iconsets[k] : k \in 1..Len(Iconsets)}

\* f"{size}.png"
PngName(size) ==
    CASE size = 16 -> "16.png"
      [] size = 32 -> "32.png"
      [] size = 64 -> "64.png"
      [] size = 128 -> "128.png"
      [] size = 256 -> "256.png"
      [] size = 512 -> "512.png"
      [] size = 1024 -> "1024.png"

SizeSet == {Sizes[k] : k \in 1..Len(Sizes)}

PngNames == {PngName(s) : s \in SizeSet}

Names == PngNames \cup {"Contents.json", "icon.png", "generate_icon.py"}

Paths == AllDirs \X Names

Absent == [kind |-> "absent"]

\* a file that was there before the script ran
Old == [kind |-> "old"]

\* what a save() that failed half-way leaves behind
Partial == [kind |-> "partial"]

\* the png files an iconset holds before the script runs
Variants == {"empty", "one", "all"}

StartFiles(exists, variant) ==
    [p \in Paths |->
        IF ~exists[p[1]] THEN Absent
        ELSE IF p[1] = "scripts"
             THEN (IF p[2] = "generate_icon.py" THEN Old ELSE Absent)
        ELSE IF p[2] = "Contents.json" THEN Old
        ELSE IF p[2] \in PngNames /\ variant[p[1]] = "all" THEN Old
        ELSE IF p[2] = PngName(Sizes[1]) /\ variant[p[1]] = "one" THEN Old
        ELSE Absent]

OutputPathFlat(iconset, size) == <<iconset, "icon.png">>

\* iconset / f"{size}.png"
OutputPath(iconset, size) == <<iconset, PngName(size)>>

Message(msg, dir, size) == <<msg, dir, size>>

---------------------------------------------------------------------------
(* A run of the script *)

Init ==
    /\ pc = "import"
    /\ pil \in BOOLEAN
    /\ dirExists \in {e \in [AllDirs -> BOOLEAN] : e["scripts"]}
    /\ \E variant \in [IconsetSet -> Variants] :
          /\ \A d \in IconsetSet : ~dirExists[d] => variant[d] = "empty"
          /\ fs = StartFiles(dirExists, variant)
    /\ fs0 = fs
    /\ prevFs = fs
    /\ out = <<>>
    /\ exitCode = <<>>
    /\ di = 1
    /\ si = 1
    /\ checked = <<>>
    /\ saved = <<>>
    /\ run = 1
    /\ rpc = "idle"
    /\ rsize = Sizes[1]
    /\ ri = 0
    /\ canvas = NewImage(Sizes[1])

\* "from PIL import ..." succeeds; the module body then calls main()
ImportOk ==
    /\ pc = "import"
    /\ pil
    /\ pc' = "loop"
    /\ di' = 1
    /\ UNCHANGED <<pil, dirExists, fs, out, exitCode, si, checked, saved,
                   fs0, prevFs, run>>
    /\ UNCHANGED renderVars

ImportErrorNoExit ==
    /\ pc = "import"
    /\ ~pil
    /\ out' = Append(out, Message("install", "", 0))
    /\ pc' = "loop"
    /\ di' = 1
    /\ UNCHANGED <<pil, dirExists, fs, exitCode, si, checked, saved,
                   fs0, prevFs, run>>
    /\ UNCHANGED renderVars

\* the import fails: print the instruction and exit(1)
ImportError ==
    /\ pc = "import"
    /\ ~pil
    /\ out' = Append(out, Message("install", "", 0))
    /\ exitCode' = <<1>>
    /\ pc' = "exit"
    /\ UNCHANGED <<pil, dirExists, fs, di, si, checked, saved, fs0, prevFs,
                   run>>
    /\ UNCHANGED renderVars

SkipMissingBreak ==
    /\ pc = "loop"
    /\ di <= Len(Iconsets)
    /\ ~dirExists[Iconsets[di]]
    /\ checked' = Append(checked, Iconsets[di])
    /\ out' = Append(out, Message("warning", Iconsets[di], 0))
    /\ di' = Len(Iconsets) + 1
    /\ UNCHANGED <<pc, pil, dirExists, fs, exitCode, si, saved, fs0, prevFs,
                   run>>
    /\ UNCHANGED renderVars

SkipMissingMkdir ==
    /\ pc = "loop"
    /\ di <= Len(Iconsets)
    /\ ~dirExists[Iconsets[di]]
    /\ checked' = Append(checked, Iconsets[di])
    /\ dirExists' = [dirExists EXCEPT ![Iconsets[di]] = TRUE]
    /\ out' = Append(out, Message("generating", Iconsets[di], 0))
    /\ pc' = "sizes"
    /\ si' = 1
    /\ UNCHANGED <<pil, fs, exitCode, di, saved, fs0, prevFs, run>>
    /\ UNCHANGED renderVars

\* the iconset does not exist: warn and continue with the next one
SkipMissing ==
    /\ pc = "loop"
    /\ di <= Len(Iconsets)
    /\ ~dirExists[Iconsets[di]]
    /\ checked' = Append(checked, Iconsets[di])
    /\ out' = Append(out, Message("warning", Iconsets[di], 0))
    /\ di' = di + 1
    /\ UNCHANGED <<pc, pil, dirExists, fs, exitCode, si, saved, fs0, prevFs,
                   run>>
    /\ UNCHANGED renderVars

\* the iconset exists: announce it and enter the size loop
BeginIconset ==
    /\ pc = "loop"
    /\ di <= Len(Iconsets)
    /\ dirExists[Iconsets[di]]
    /\ checked' = Append(checked, Iconsets[di])
    /\ out' = Append(out, Message("generating", Iconsets[di], 0))
    /\ pc' = "sizes"
    /\ si' = 1
    /\ UNCHANGED <<pil, dirExists, fs, exitCode, di, saved, fs0, prevFs, run>>
    /\ UNCHANGED renderVars

SaveIconStale ==
    /\ pc = "sizes"
    /\ si <= Len(Sizes)
    /\ fs' = [fs EXCEPT ![OutputPath(Iconsets[di], Sizes[si])] =
                 create_icon(Sizes[1])]
    /\ saved' = Append(saved, <<Iconsets[di], Sizes[si]>>)
    /\ out' = Append(out, Message("created", "", Sizes[si]))
    /\ IF si < Len(Sizes)
       THEN si' = si + 1 /\ UNCHANGED <<pc, di>>
       ELSE pc' = "loop" /\ di' = di + 1 /\ UNCHANGED si
    /\ UNCHANGED <<pil, dirExists, exitCode, checked, fs0, prevFs, run>>
    /\ UNCHANGED renderVars

\* one iteration of the size loop: render, save, report
SaveIcon ==
    /\ pc = "sizes"
    /\ si <= Len(Sizes)
    /\ fs' = [fs EXCEPT ![OutputPath(Iconsets[di], Sizes[si])] =
                 create_icon(Sizes[si])]
    /\ saved' = Append(saved, <<Iconsets[di], Sizes[si]>>)
    /\ out' = Append(out, Message("created", "", Sizes[si]))
    /\ IF si < Len(Sizes)
       THEN si' = si + 1 /\ UNCHANGED <<pc, di>>
       ELSE pc' = "loop" /\ di' = di + 1 /\ UNCHANGED si
    /\ UNCHANGED <<pil, dirExists, exitCode, checked, fs0, prevFs, run>>
    /\ UNCHANGED renderVars

SaveFaultCaught ==
    /\ pc = "sizes"
    /\ si <= Len(Sizes)
    /\ IF si < Len(Sizes)
       THEN si' = si + 1 /\ UNCHANGED <<pc, di>>
       ELSE pc' = "loop" /\ di' = di + 1 /\ UNCHANGED si
    /\ UNCHANGED <<pil, dirExists, fs, out, exitCode, checked, saved, fs0,
                   prevFs, run>>
    /\ UNCHANGED renderVars

\* icon.save() raises: nothing catches it and the run ends there.  The file
\* being written is untouched if it could not be opened, cut short otherwise.
SaveFault ==
    /\ pc = "sizes"
    /\ si <= Len(Sizes)
    /\ \E opened \in BOOLEAN :
          fs' = IF opened
                THEN [fs EXCEPT ![OutputPath(Iconsets[di], Sizes[si])] = Partial]
                ELSE fs
    /\ pc' = "fault"
    /\ exitCode' = <<1>>
    /\ UNCHANGED <<pil, dirExists, out, di, si, checked, saved, fs0, prevFs,
                   run>>
    /\ UNCHANGED renderVars

\* both iconsets were handled: the completion message, then exit status 0
Finish ==
    /\ pc = "loop"
    /\ di > Len(Iconsets)
    /\ out' = Append(out, Message("done", "", 0))
    /\ exitCode' = <<0>>
    /\ pc' = "done"
    /\ UNCHANGED <<pil, dirExists, fs, di, si, checked, saved, fs0, prevFs,
                   run>>
    /\ UNCHANGED renderVars

\* the script is started again on the filesystem the completed run left
Rerun ==
    /\ pc = "done"
    /\ run < MaxRuns
    /\ run' = run + 1
    /\ prevFs' = fs
    /\ pc' = "import"
    /\ out' = <<>>
    /\ exitCode' = <<>>
    /\ checked' = <<>>
    /\ saved' = <<>>
    /\ di' = 1
    /\ si' = 1
    /\ UNCHANGED <<pil, dirExists, fs, fs0>>
    /\ UNCHANGED renderVars

Next ==
    \/ ImportOk
    \/ ImportError
    \/ SkipMissing
    \/ BeginIconset
    \/ SaveIcon
    \/ SaveFault
    \/ Finish
    \/ Rerun

Spec == Init /\ [][Next]_vars

\* the interpreter runs the script to its end: a step that can be taken is taken
FairSpec == Spec /\ WF_vars(Next)

---------------------------------------------------------------------------
(* create_icon, one call per behaviour, for every size of the bounded set *)

RenderSizes == (1..MaxSize) \cup SizeSet

RenderInit ==
    /\ rsize \in RenderSizes
    /\ rpc = "idle"
    /\ ri = 0
    /\ canvas = NewImage(rsize)
    /\ pc = "import"
    /\ pil = TRUE
    /\ dirExists = [d \in AllDirs |-> TRUE]
    /\ fs = StartFiles(dirExists, [d \in IconsetSet |-> "empty"])
    /\ fs0 = fs
    /\ prevFs = fs
    /\ out = <<>>
    /\ exitCode = <<>>
    /\ di = 1
    /\ si = 1
    /\ checked = <<>>
    /\ saved = <<>>
    /\ run = 1

\* the canvas, the rounded square, and the entry into draw_snowflake
RenderBackground ==
    /\ rpc = "idle"
    /\ canvas' = Background(rsize)
    /\ ri' = 0
    /\ rpc' = "arms"
    /\ UNCHANGED rsize
    /\ UNCHANGED mainVars

\* one iteration of "for i in range(6)"
RenderArm ==
    /\ rpc = "arms"
    /\ ri < NumArms
    /\ canvas' = DrawArm(canvas, center(rsize), center(rsize), rsize, "white", ri)
    /\ ri' = ri + 1
    /\ UNCHANGED <<rpc, rsize>>
    /\ UNCHANGED mainVars

\* the loop is over: draw_snowflake returns, create_icon returns the canvas
RenderReturn ==
    /\ rpc = "arms"
    /\ ri >= NumArms
    /\ rpc' = "return"
    /\ UNCHANGED <<rsize, ri, canvas>>
    /\ UNCHANGED mainVars

RenderNext ==
    \/ RenderBackground
    \/ RenderArm
    \/ RenderReturn

SpecRender == RenderInit /\ [][RenderNext]_vars

\* the image create_icon returns is the one the size loop of main() saves
ReturnsCreateIcon == rpc = "return" => canvas = create_icon(rsize)

---------------------------------------------------------------------------
(* Properties of a run of the script *)

ClaimedSizes == {16, 32, 64, 128, 256, 512, 1024}

ClaimedDirs == {"Blurred", "BlurredLauncher"}

ClaimedNames ==
    {"16.png", "32.png", "64.png", "128.png", "256.png", "512.png", "1024.png"}

Printed(m) == \E k \in 1..Len(out) : out[k] = m

Existing == {d \in ClaimedDirs : dirExists[d]}

\* the seven files of directory d hold the seven icons
AllSevenIn(d) == \A s \in ClaimedSizes : fs[<<d, PngName(s)>>] = create_icon(s)

\* the files when the current run started
RunStartFs == IF run = 1 THEN fs0 ELSE prevFs

\* the saves of the first n sizes into directory d, in order
SavesOf(d, n) == [k \in 1..n |-> <<d, Sizes[k]>>]

\* the saves of a run that has got to size index n of directory index k
RECURSIVE SavesBefore(_, _)
SavesBefore(k, n) ==
    IF k = 0 THEN <<>>
    ELSE IF k > Len(Iconsets) THEN SavesBefore(k - 1, Len(Sizes))
    ELSE IF ~dirExists[Iconsets[k]] THEN SavesBefore(k - 1, Len(Sizes))
    ELSE SavesBefore(k - 1, Len(Sizes)) \o SavesOf(Iconsets[k], n)

SavedPaths == {OutputPath(saved[k][1], saved[k][2]) : k \in 1..Len(saved)}

\* C1: a completed run (dependency present, no write failed) has written, for
\* every target directory that exists and every size of the list, the file
\* {size}.png holding create_icon(size): 7 files per existing directory.
C1_AllIconsWritten ==
    pc = "done" =>
        /\ \A d \in Existing : AllSevenIn(d)
        /\ Len(saved) = 7 * Cardinality(Existing)
        /\ Cardinality(SavedPaths) = Len(saved)

C1_Witness ==
    /\ pc = "done"
    /\ Cardinality(Existing) = 2
    /\ Len(saved) = 14
    /\ fs0[<<"Blurred", "16.png">>] = Absent

C2_State ==
    \A d \in ClaimedDirs :
        Printed(Message("warning", d, 0)) =>
            /\ ~dirExists[d]
            /\ \A n \in Names : fs[<<d, n>>] = Absent
            /\ \A k \in 1..Len(saved) : saved[k][1] # d
            /\ pc = "done" =>
                  /\ exitCode = <<0>>
                  /\ \A e \in Existing : AllSevenIn(e)

C2_Step ==
    \A d \in ClaimedDirs :
        ~dirExists[d] =>
            /\ ~dirExists'[d]
            /\ pc' = "done" => \E k \in 1..Len(out') : out'[k] = Message("warning", d, 0)

\* C2: a target directory that does not exist gets a warning naming it, no file
\* and is not created; the other directory, if it exists, still gets its seven
\* files whichever of the two is missing; the run completes with exit code 0.
C2_MissingSkipped == [](C2_State) /\ [][C2_Step]_vars

C2_Witness ==
    /\ pc = "done"
    /\ ~dirExists["Blurred"]
    /\ dirExists["BlurredLauncher"]
    /\ Printed(Message("warning", "Blurred", 0))
    /\ AllSevenIn("BlurredLauncher")

\* C3: without the imaging dependency the run prints the install instruction
\* and exits non-zero before main(): no directory is checked, no progress or
\* completion line is printed, no file is created or modified.
C3_NoDependency ==
    ~pil =>
        /\ pc \in {"import", "exit"}
        /\ checked = <<>>
        /\ saved = <<>>
        /\ fs = fs0
        /\ \A k \in 1..Len(out) : out[k] = Message("install", "", 0)
        /\ pc = "exit" =>
              /\ out = <<Message("install", "", 0)>>
              /\ Len(exitCode) = 1
              /\ exitCode[1] # 0

C3_Witness ==
    /\ ~pil
    /\ pc = "exit"
    /\ out = <<Message("install", "", 0)>>
    /\ dirExists["Blurred"]

Ended == pc \in {"done", "fault", "exit"}

\* C7 as stated: once the dependency is present the run ends only after the
\* second directory was visited, whatever happened with the first.
C7_Original ==
    (pil /\ pc \in {"done", "fault"}) =>
        \E k \in 1..Len(checked) : checked[k] = Iconsets[2]

C7_Safe ==
    /\ pc = "done" => checked = Iconsets /\ exitCode = <<0>>
    /\ pc = "fault" =>
          /\ checked = SubSeq(Iconsets, 1, di)
          /\ dirExists[Iconsets[di]]
          /\ exitCode = <<1>>
          /\ ~ENABLED Next

\* C7 amended: with the dependency present every run of main() ends; a run in
\* which no write faults ends after visiting both directories in order, the
\* first missing or written; a run in which a write faults ends at that write
\* without visiting a later directory.
C7_Terminates == [](C7_Safe) /\ ((pil /\ pc = "import") ~> Ended)

C7_Witness ==
    /\ pc = "done"
    /\ ~dirExists[Iconsets[1]]
    /\ checked = Iconsets

\* C9: a failed write is not caught.  The run ends at it with a non-zero
\* status and no completion message; the saves made are all sizes of every
\* existing earlier directory and the smaller sizes of this one; every other
\* file is as it was, the file of the failed write untouched or cut short.
\* Hence a run that prints the completion message made every save.
C9_FaultEndsRun ==
    /\ pc = "fault" =>
          /\ ~ENABLED Next
          /\ ~Printed(Message("done", "", 0))
          /\ Len(exitCode) = 1 /\ exitCode[1] # 0
          /\ saved = SavesBefore(di, si - 1)
          /\ \A p \in Paths :
                IF p \in SavedPaths
                THEN \E s \in ClaimedSizes : fs[p] = create_icon(s) /\ p[2] = PngName(s)
                ELSE IF p = <<Iconsets[di], PngName(Sizes[si])>>
                THEN fs[p] \in {RunStartFs[p], Partial}
                ELSE fs[p] = RunStartFs[p]
    /\ Printed(Message("done", "", 0)) =>
          saved = SavesBefore(Len(Iconsets), Len(Sizes))

C9_Witness ==
    /\ pc = "fault"
    /\ di = 2
    /\ si = 3
    /\ dirExists["Blurred"]
    /\ Len(saved) = 9

C9_WitnessFirstWrite ==
    /\ pc = "fault"
    /\ di = 1
    /\ si = 1
    /\ saved = <<>>

C10_Step ==
    /\ dirExists' = dirExists
    /\ \A p \in Paths :
          fs'[p] # fs[p] => p[1] \in ClaimedDirs /\ p[2] \in ClaimedNames

C10_State ==
    pc = "done" =>
        /\ \A d \in Existing : \A n \in ClaimedNames : fs[<<d, n>>].kind = "png"
        /\ run >= 2 => fs = prevFs

\* C10: main() changes the filesystem only at <target directory>/<size>.png;
\* it creates and deletes no directory, leaves every other file as it was,
\* overwrites a {size}.png that is already there, and a second run leaves the
\* filesystem as the first run left it.
C10_Frame == [](C10_State) /\ [][C10_Step]_vars

C10_Witness ==
    /\ pc = "done"
    /\ run = 2
    /\ fs0[<<"Blurred", "16.png">>] = Old
    /\ fs[<<"Blurred", "16.png">>] = create_icon(16)
    /\ fs[<<"Blurred", "Contents.json">>] = Old

---------------------------------------------------------------------------
(* Properties of create_icon and draw_snowflake *)

\* C4: for every size >= 16 the four outermost corner pixels of the image
\* create_icon returns are transparent: neither the rounded rectangle nor a
\* stroke of the glyph paints them.
C4_CornersTransparent ==
    (rpc = "return" /\ rsize >= 16) =>
        \A x \in {0, rsize - 1} : \A y \in {0, rsize - 1} :
            Alpha(canvas, x, y) = 0

\* a segment relative to the center, y upwards, in hundredths of a pixel
Rel(l, c) ==
    [x0 |-> l.x0 - c * 100, y0 |-> c * 100 - l.y0,
     x1 |-> l.x1 - c * 100, y1 |-> c * 100 - l.y1]

\* the point (x, y) turned by 60 degrees about the origin
RotX(x, y) == (x * 5000 - y * 8660) \div 10000

RotY(x, y) == (x * 8660 + y * 5000) \div 10000

\* equal to a tenth of a pixel
Near(a, b) == a - b \in -10..10

\* segment a turned by 60 degrees is segment b
TurnsInto(a, b) ==
    /\ Near(RotX(a.x0, a.y0), b.x0)
    /\ Near(RotY(a.x0, a.y0), b.y0)
    /\ Near(RotX(a.x1, a.y1), b.x1)
    /\ Near(RotY(a.x1, a.y1), b.y1)

\* C5: the 18 segments draw_snowflake has drawn are invariant under a turn of
\* 60 degrees about the center: arm i turns into arm i+1 mod 6 and each of its
\* branches into the same branch of that arm, with the same stroke; the arm
\* of i = 0 ends straight above the center.
C5_SixfoldSymmetry ==
    rpc = "return" =>
        /\ Len(canvas.lines) = 18
        /\ \A i \in 0..5 : \A j \in 1..3 :
              LET a == canvas.lines[3 * i + j]
                  b == canvas.lines[3 * ((i + 1) % 6) + j]
              IN  /\ TurnsInto(Rel(a, center(rsize)), Rel(b, center(rsize)))
                  /\ a.width = b.width
                  /\ a.fill = b.fill
        /\ \A i \in 0..5 :
              /\ canvas.lines[3 * i + 1].x0 = center(rsize) * 100
              /\ canvas.lines[3 * i + 1].y0 = center(rsize) * 100
        /\ canvas.lines[1].x1 = center(rsize) * 100
        /\ canvas.lines[1].y1 < center(rsize) * 100

C5_Witness ==
    /\ rpc = "return"
    /\ rsize = 1024
    /\ Len(canvas.lines) = 18
    /\ canvas.lines[1].y1 = 51200 - 28672
    /\ canvas.lines[4].x1 < 51200
    /\ canvas.lines[4].y1 < 51200

\* max(1, 0.04 * size) rounded to the nearest integer
RoundedWidth(size) == (Max(100, size * 4) + 50) \div 100

\* C8 as stated: the stroke width of every segment is max(1, 0.04 * size)
\* rounded to an integer.
C8_Original ==
    rpc = "return" =>
        \A k \in 1..Len(canvas.lines) :
            canvas.lines[k].width = RoundedWidth(rsize)

\* C8 amended: the stroke width of all 18 segments is max(1, 0.04 * size) cut
\* down to an integer, so it is an integer >= 1 for every size; for the sizes
\* 16 .. 1024 it is 1, 1, 2, 5, 10, 20, 40.
C8_TruncatedWidth ==
    rpc = "return" =>
        /\ Len(canvas.lines) = 18
        /\ \A k \in 1..Len(canvas.lines) :
              LET w == canvas.lines[k].width
              IN  /\ w >= 1
                  /\ w * 100 <= Max(100, rsize * 4)
                  /\ Max(100, rsize * 4) < (w + 1) * 100
        /\ \A k \in 1..7 :
              rsize = Sizes[k] =>
                  canvas.lines[1].width = <<1, 1, 2, 5, 10, 20, 40>>[k]

C8_Witness ==
    /\ rpc = "return"
    /\ rsize = 64
    /\ canvas.lines[18].width = 2
    /\ RoundedWidth(rsize) = 3

====
